---------------------------- MODULE Spec2Model ----------------------------
(***************************************************************************)
(* A model of src/src/utils/transform_utils.py:                            *)
(*   compute_data_mean_std, denormalize, transform_image_and_landmarks.    *)
(*                                                                         *)
(* Numbers.  The code computes with binary floating point: the tensors     *)
(* hold float32 values, the accumulators are Python floats (float64).      *)
(* Both formats are modelled scaled down: a number is an integer count of  *)
(* the smallest step 2^-FracBits (the role IEEE subnormals play), kept to  *)
(* PrecTensor (for float32: 24) or PrecFloat (for float64: 53)             *)
(* significant bits by round-to-nearest, ties-to-even, after every         *)
(* operation.  PrecFloat > 2 * PrecTensor as 53 > 2 * 24, so the square of *)
(* a tensor value is exact as a Python float and rounds as a tensor value. *)
(***************************************************************************)
EXTENDS Integers, Sequences, FiniteSets

VARIABLES
    \* compute_data_mean_std
    dataloader,         \* the argument: a sequence of <<images, label>> batches
    it,                 \* position of the for loop's iterator in dataloader
    total_sum, total_squared_sum, total_num,
    mean, std,          \* the locals of lines 18, 30, 31: [kind, val]
    pc,                 \* "loop" | "returned" | "raised"
    exc,                \* the exception that left the function, "" if none
    \* denormalize
    heap,               \* tensor storage: object id -> channels -> elements
                        \* (the views the loop iterates over own no storage)
    tensor,             \* the argument `tensor`: an object id
    dn_mean, dn_std,    \* the arguments `mean` and `std`: sequences of numbers
    zi,                 \* iterations of the zip loop completed
    dn_pc,              \* "idle" | "loop" | "returned" | "raised"
    dn_ret,             \* the object id returned, 0 before the return
    entry,              \* history: the contents of `tensor` at the call
    original,           \* history: the tensor that was normalized to give `entry`
    \* transform_image_and_landmarks
    args,               \* the arguments of the call
    normalizer,         \* which function normalize_landmarks is
    image, landmarks,   \* the locals `image` and `landmarks`
    calls,              \* the calls made to the collaborators, in order
    tf_pc,              \* "idle" | "rotate_flip" | "normalize" | "return" | "returned"
    tf_ret              \* the pair returned, <<>> before the return

msVars == <<dataloader, it, total_sum, total_squared_sum, total_num, mean, std, pc, exc>>

dnVars == <<heap, tensor, dn_mean, dn_std, zi, dn_pc, dn_ret, entry, original>>

tfVars == <<args, normalizer, image, landmarks, calls, tf_pc, tf_ret>>

vars == <<msVars, dnVars, tfVars>>

---------------------------------------------------------------------------
(* Bounds of the model *)

PrecTensor == 5
PrecFloat == 11
FracBits == 10
MaxBatches == 2
MaxElements == 3
MaxChannels == 2
MaxTensorElems == 4
NumLandmarkCoords == 2

---------------------------------------------------------------------------
(* Floating point *)

RECURSIVE Pow2(_)
Pow2(n) == IF n = 0 THEN 1 ELSE 2 * Pow2(n - 1)

\* 1.0 in steps
Unit == Pow2(FracBits)

Abs(x) == IF x < 0 THEN -x ELSE x

Min(a, b) == IF a <= b THEN a ELSE b

\* The spacing of the numbers with P significant bits around q >= 0.
RECURSIVE Ulp(_, _)
Ulp(q, P) == IF q < Pow2(P) THEN 1 ELSE 2 * Ulp(q \div 2, P)

\* num / d (num >= 0, d > 0) to the nearest integer, ties to even.
NearestEven(num, d) ==
    LET q == num \div d
        r == num % d
    IN  IF 2 * r < d THEN q
        ELSE IF 2 * r > d THEN q + 1
        ELSE IF q % 2 = 0 THEN q ELSE q + 1

\* The rational num / den (den > 0), in steps, as a number of P significant bits.
Round(num, den, P) ==
    LET a == Abs(num)
        s == Ulp(a \div den, P)
        r == s * NearestEven(a, den * s)
    IN  IF num < 0 THEN -r ELSE r

RECURSIVE ISqrt(_, _, _)
\* floor(sqrt(n)), searched in lo..hi
ISqrt(n, lo, hi) ==
    IF lo = hi THEN lo
    ELSE LET mid == (lo + hi + 1) \div 2
         IN  IF mid * mid <= n THEN ISqrt(n, mid, hi) ELSE ISqrt(n, lo, mid - 1)

\* sqrt of x >= 0 steps, in steps, as a number of P significant bits.
RoundSqrt(x, P) ==
    LET n  == x * Unit
        r  == ISqrt(n, 0, Min(n, 4 * Unit))
        s  == Ulp(r, P)
        lo == (r \div s) * s
    IN  IF lo * lo = n THEN lo
        ELSE IF 4 * n > (2 * lo + s) * (2 * lo + s) THEN lo + s ELSE lo

\* float32 arithmetic of the tensor kernels
TAdd(a, b) == Round(a + b, 1, PrecTensor)
TMul(a, b) == Round(a * b, Unit, PrecTensor)
TDiv(a, b) == IF b < 0 THEN Round(-(a * Unit), -b, PrecTensor)
                       ELSE Round(a * Unit, b, PrecTensor)

\* Python float arithmetic
FAdd(a, b) == Round(a + b, 1, PrecFloat)
FSub(a, b) == Round(a - b, 1, PrecFloat)
FMul(a, b) == Round(a * b, Unit, PrecFloat)

Float(v) == [kind |-> "float", val |-> v]

\* float / int (line 30-31): Python raises ZeroDivisionError on a zero divisor.
PyTrueDivNaN(a, n) == IF n = 0 THEN [kind |-> "nan", val |-> 0]
                               ELSE Float(Round(a, n, PrecFloat))
PyTrueDiv(a, n) == IF n = 0 THEN [kind |-> "ZeroDivisionError", val |-> 0]
                            ELSE Float(Round(a, n, PrecFloat))

\* x ** 0.5 (line 31): a negative float to a fractional power is a complex
\* number in Python 3, of imaginary part sqrt(-x) (val; the real part is a
\* rounding residue of cos(pi/2), left out).
PySqrt(x) == IF x < 0 THEN [kind |-> "complex", val |-> RoundSqrt(-x, PrecFloat)]
                      ELSE Float(RoundSqrt(x, PrecFloat))

---------------------------------------------------------------------------
(* Each specification runs one of the three functions; the state of the     *)
(* other two stays as it is before any call.                                *)

IdleMeanStd ==
    /\ dataloader = <<>>
    /\ it = 1
    /\ total_sum = 0
    /\ total_squared_sum = 0
    /\ total_num = 0
    /\ mean = Float(0)
    /\ std = Float(0)
    /\ pc = "idle"
    /\ exc = ""

IdleDenormalize ==
    /\ heap = <<>>
    /\ tensor = 0
    /\ dn_mean = <<>>
    /\ dn_std = <<>>
    /\ zi = 0
    /\ dn_pc = "idle"
    /\ dn_ret = 0
    /\ entry = <<>>
    /\ original = <<>>

NoImage == [src |-> "", op |-> ""]
NoArgs == [image |-> NoImage, landmarks |-> <<>>, rotate_flip |-> FALSE,
           rotation_range |-> 0, hflip_prob |-> 0, normalize |-> FALSE]

IdleTransform ==
    /\ args = NoArgs
    /\ normalizer = ""
    /\ image = NoImage
    /\ landmarks = <<>>
    /\ calls = <<>>
    /\ tf_pc = "idle"
    /\ tf_ret = <<>>

---------------------------------------------------------------------------
(* compute_data_mean_std *)

\* Pixel values: float32 numbers in [0, 1], numerators over 32.
PixelKs == {0, 11, 16, 21}
PixelValues == {k * (Unit \div 32) : k \in PixelKs}
Labels == {0, 1}

\* Flattened image batches of n elements
ImageBatches(n) == [1..n -> PixelValues]

RECURSIVE ImageSeqs(_, _)
\* Sequences of n batches holding at most e elements in total; a batch may be empty
ImageSeqs(n, e) ==
    IF n = 0 THEN {<<>>}
    ELSE UNION {{Append(d, b) : d \in ImageSeqs(n - 1, e - k), b \in ImageBatches(k)} :
                   k \in 0..e}

\* What the DataLoader yields: <<images, label>> pairs
Dataloaders ==
    UNION {{[i \in 1..Len(d) |-> <<d[i], lab>>] : d \in ImageSeqs(n, MaxElements)} :
              n \in 0..MaxBatches, lab \in Labels}

RECURSIVE TensorSum(_)
\* Tensor.sum() of a flattened float32 tensor: accumulated in float32, here in
\* element order (the kernel may pair the elements otherwise; every order
\* rounds after each addition)
TensorSum(t) == IF t = <<>> THEN 0
                ELSE TAdd(TensorSum(SubSeq(t, 1, Len(t) - 1)), t[Len(t)])

\* Tensor.pow(2): elementwise, in float32
TensorPow2(t) == [i \in 1..Len(t) |-> TMul(t[i], t[i])]

\* Tensor.numel()
Numel(t) == Len(t)

\* line 31, from mean: (total_squared_sum / total_num - mean ** 2)
Variance(sq, n, m) == FSub(PyTrueDiv(sq, n).val, FMul(m, m))

\* The accumulators after lines 18-21
ZeroAcc == [num |-> 0, sum |-> 0, sq |-> 0]

\* lines 24-27: the loop body on one batch of images
AccumulateBatchMeans(acc, images) ==
    LET flattened_images == images
        n == Numel(flattened_images)
    IN  IF n = 0 THEN acc
        ELSE [num |-> acc.num + 1,
              sum |-> FAdd(acc.sum, Round(TensorSum(flattened_images), n, PrecTensor)),
              sq  |-> FAdd(acc.sq,
                           Round(TensorSum(TensorPow2(flattened_images)), n, PrecTensor))]
Accumulate(acc, images) ==
    LET flattened_images == images
    IN  [num |-> acc.num + Numel(flattened_images),
         sum |-> FAdd(acc.sum, TensorSum(flattened_images)),
         sq  |-> FAdd(acc.sq, TensorSum(TensorPow2(flattened_images)))]

\* lines 30-32: the outcome from the accumulators
Finish(acc) ==
    LET m == PyTrueDiv(acc.sum, acc.num)
    IN  IF m.kind = "ZeroDivisionError"
        THEN [pc |-> "raised", exc |-> m.kind, mean |-> Float(0), std |-> Float(0)]
        ELSE [pc |-> "returned", exc |-> "", mean |-> m,
              std |-> PySqrt(Variance(acc.sq, acc.num, m.val))]

InitMeanStd ==
    /\ dataloader \in Dataloaders
    /\ it = 1
    /\ total_sum = 0
    /\ total_squared_sum = 0
    /\ total_num = 0
    /\ mean = Float(0)
    /\ std = Float(0)
    /\ pc = "loop"
    /\ exc = ""
    /\ IdleDenormalize
    /\ IdleTransform

\* lines 23-27: one iteration of the loop; the label of the pair is dropped
LoopBody ==
    /\ pc = "loop"
    /\ it <= Len(dataloader)
    /\ LET acc == Accumulate([num |-> total_num, sum |-> total_sum,
                              sq |-> total_squared_sum], dataloader[it][1])
       IN  /\ total_num' = acc.num
           /\ total_sum' = acc.sum
           /\ total_squared_sum' = acc.sq
    /\ it' = it + 1
    /\ UNCHANGED <<dataloader, mean, std, pc, exc, dnVars, tfVars>>

\* lines 30-32, once the iterator is exhausted
ComputeAndReturn ==
    /\ pc = "loop"
    /\ it > Len(dataloader)
    /\ LET r == Finish([num |-> total_num, sum |-> total_sum,
                        sq |-> total_squared_sum])
       IN  /\ pc' = r.pc
           /\ exc' = r.exc
           /\ mean' = r.mean
           /\ std' = r.std
    /\ UNCHANGED <<dataloader, it, total_sum, total_squared_sum, total_num, dnVars, tfVars>>

NextMeanStd == LoopBody \/ ComputeAndReturn

SpecMeanStd == InitMeanStd /\ [][NextMeanStd]_vars

---------------------------------------------------------------------------
(* compute_data_mean_std: what the claims are stated over *)

RECURSIVE FlattenAll(_)
\* every element of every batch, in order
FlattenAll(dl) == IF dl = <<>> THEN <<>>
                  ELSE FlattenAll(SubSeq(dl, 1, Len(dl) - 1)) \o dl[Len(dl)][1]

RECURSIVE SeqSum(_)
SeqSum(t) == IF t = <<>> THEN 0 ELSE SeqSum(SubSeq(t, 1, Len(t) - 1)) + t[Len(t)]

\* numerators over 32 of the elements: the real numbers the tensors hold
Numerators(dl) == LET e == FlattenAll(dl) IN [i \in 1..Len(e) |-> e[i] \div (Unit \div 32)]
RealN(dl) == Len(FlattenAll(dl))
RealS(dl) == SeqSum(Numerators(dl))
RealQ(dl) == LET k == Numerators(dl) IN SeqSum([i \in 1..Len(k) |-> k[i] * k[i]])

CountOf(dl, v) == Cardinality({i \in 1..Len(FlattenAll(dl)) : FlattenAll(dl)[i] = v})
SameElements(d1, d2) == \A v \in PixelValues : CountOf(d1, v) = CountOf(d2, v)

RECURSIVE RunLoop(_)
RunLoop(dl) == IF dl = <<>> THEN ZeroAcc
               ELSE Accumulate(RunLoop(SubSeq(dl, 1, Len(dl) - 1)), dl[Len(dl)][1])
\* the outcome of compute_data_mean_std(dl)
ResultOf(dl) == Finish(RunLoop(dl))

Relabel(dl, lab) == [i \in 1..Len(dl) |-> <<dl[i][1], lab>>]

ConstantDataset(v) ==
    /\ Len(dataloader) >= 1
    /\ \A b \in 1..Len(dataloader) :
          /\ Len(dataloader[b][1]) >= 1
          /\ \A i \in 1..Len(dataloader[b][1]) : dataloader[b][1][i] = v

Finished == pc \in {"returned", "raised"}

LongestBatch == MaxElements

\* the variance line 31 takes the root of
ComputedVariance == Variance(total_squared_sum, total_num, mean.val)

---------------------------------------------------------------------------
(* Claims about compute_data_mean_std (specification SpecMeanStd) *)

\* C1 as stated: for a dataset of N >= 1 non-empty batches whose elements all
\* equal v, the function returns exactly mean = v and std = 0.
C1_ConstantExact ==
    \A v \in PixelValues :
        (Finished /\ ConstantDataset(v)) =>
            (pc = "returned" /\ mean = Float(v) /\ std = Float(0))

\* C2: when the iterable yields zero elements in total (no batch, or only
\* empty batches) the function never returns a pair: it ends by raising
\* ZeroDivisionError.
C2_EmptyRaises ==
    RealN(dataloader) = 0 =>
        /\ pc # "returned"
        /\ Finished => (pc = "raised" /\ exc = "ZeroDivisionError")
        /\ (pc = "loop" /\ it > Len(dataloader)) => ENABLED ComputeAndReturn

\* C2 witness: a dataloader of only empty batches, at least one, has raised.
C2_Witness ==
    /\ Len(dataloader) >= 1
    /\ RealN(dataloader) = 0
    /\ pc = "raised"
    /\ exc = "ZeroDivisionError"

\* C7 as stated: std = sqrt(max(variance, 0)): the returned std is a
\* non-negative real number, 0 whenever the computed variance is negative.
C7_StdClamped ==
    pc = "returned" =>
        /\ std.kind = "float"
        /\ std.val >= 0
        /\ ComputedVariance < 0 => std.val = 0

---------------------------------------------------------------------------
(* denormalize *)

\* Thirty-seconds of 1.0, in steps
U32 == Unit \div 32

\* Tensors of shape (C, E): channels of E elements, C * E <= MaxTensorElems
TensorsOver(values) ==
    UNION {UNION {[1..c -> [1..e -> values]] : e \in 1..(MaxTensorElems \div c)} :
              c \in 1..MaxChannels}

\* Per-channel statistics as a configuration would list them: the first n
\* entries of a list alternating between two values, starting at either.
Alternating(pair, n, first) ==
    [i \in 1..n |-> pair[((i + first) % 2) + 1]]
StatLists(pair) ==
    {Alternating(pair, n, first) : n \in 1..MaxChannels, first \in 0..1}

TensorValues == {-24 * U32, 11 * U32, 21 * U32}
MeanPair == <<13 * U32, 16 * U32>>
StdPair == <<7 * U32, 48 * U32>>

\* line 50: what zip does after i iterations over iterables of lengths c, m, s:
\* it stops, without an error, as soon as any of them is exhausted.
ZipNextStrict(i, c, m, s) ==
    IF i < Min(c, Min(m, s)) THEN "body"
    ELSE IF c = m /\ m = s THEN "stop" ELSE "raise"
ZipNext(i, c, m, s) == IF i < Min(c, Min(m, s)) THEN "body" ELSE "stop"

\* line 51: t.mul_(s).add_(m) on the view t of channel i of object id: both
\* steps write, in float32, into the storage the view shares with the tensor.
MulAddOutOfPlace(h, id, i, s, m) ==
    LET new == Len(h) + 1
    IN  [k \in 1..new |->
            IF k = new
            THEN [e \in 1..Len(h[id][i]) |-> TAdd(TMul(h[id][i][e], s), m)]
            ELSE h[k]]
AddThenMul(h, id, i, s, m) ==
    [h EXCEPT ![id][i] = [e \in 1..Len(h[id][i]) |-> TMul(TAdd(h[id][i][e], m), s)]]
MulAdd(h, id, i, s, m) ==
    [h EXCEPT ![id][i] = [e \in 1..Len(h[id][i]) |-> TAdd(TMul(h[id][i][e], s), m)]]

\* line 53: the object the function hands back
ReturnedObject(id) == id

\* The call denormalize(t, m, s): `tensor` names the only object there is.
Called(t, m, s) ==
    /\ heap = <<t>>
    /\ tensor = 1
    /\ dn_mean = m
    /\ dn_std = s
    /\ zi = 0
    /\ dn_pc = "loop"
    /\ dn_ret = 0
    /\ entry = t

InitDenormalize ==
    /\ \E t \in TensorsOver(TensorValues), m \in StatLists(MeanPair),
          s \in StatLists(StdPair) :
          /\ Called(t, m, s)
          /\ original = t
    /\ IdleMeanStd
    /\ IdleTransform

\* lines 50-51: one iteration of the loop
DenormLoopBody ==
    /\ dn_pc = "loop"
    /\ ZipNext(zi, Len(heap[tensor]), Len(dn_mean), Len(dn_std)) = "body"
    /\ heap' = MulAdd(heap, tensor, zi + 1, dn_std[zi + 1], dn_mean[zi + 1])
    /\ zi' = zi + 1
    /\ UNCHANGED <<tensor, dn_mean, dn_std, dn_pc, dn_ret, entry, original, msVars, tfVars>>

\* lines 50, 53: the loop ends and the tensor is returned
DenormReturn ==
    /\ dn_pc = "loop"
    /\ ZipNext(zi, Len(heap[tensor]), Len(dn_mean), Len(dn_std)) # "body"
    /\ IF ZipNext(zi, Len(heap[tensor]), Len(dn_mean), Len(dn_std)) = "stop"
       THEN dn_pc' = "returned" /\ dn_ret' = ReturnedObject(tensor)
       ELSE dn_pc' = "raised" /\ dn_ret' = 0
    /\ UNCHANGED <<heap, tensor, dn_mean, dn_std, zi, entry, original, msVars, tfVars>>

NextDenormalize == DenormLoopBody \/ DenormReturn

SpecDenormalize == InitDenormalize /\ [][NextDenormalize]_vars

\* The normalization denormalize inverts: x |-> (x - mean[i]) / std[i] on
\* channel i, in float32.
Normalize(t, m, s) ==
    [i \in 1..Len(t) |-> [e \in 1..Len(t[i]) |-> TDiv(TAdd(t[i][e], -m[i]), s[i])]]

\* Values of T: pixels in [0, 1], some of them finer than the last bit of the mean
RoundTripValues == {0, 21 * (Unit \div 256), 27 * (Unit \div 128), 16 * U32, 21 * U32, Unit}

\* denormalize called on normalize(T), with the mean and std that normalized T
InitRoundTrip ==
    /\ \E t \in TensorsOver(RoundTripValues), first \in 0..1, sfirst \in 0..1 :
          LET m == Alternating(MeanPair, Len(t), first)
              s == Alternating(StdPair, Len(t), sfirst)
          IN  /\ Called(Normalize(t, m, s), m, s)
              /\ original = t
    /\ IdleMeanStd
    /\ IdleTransform
    /\ IdleTransform

SpecRoundTrip == InitRoundTrip /\ [][NextDenormalize]_vars

---------------------------------------------------------------------------
(* transform_image_and_landmarks *)

\* Landmark coordinates are multiples of one half; an array holds
\* NumLandmarkCoords of them (21 x 3 in the repository).
Half == Unit \div 2
In01(lm) == \A i \in 1..Len(lm) : 0 <= lm[i] /\ lm[i] <= Unit
InPm1(lm) == \A i \in 1..Len(lm) : -Unit <= lm[i] /\ lm[i] <= Unit
LandmarkArrays == [1..NumLandmarkCoords -> {0, Half, Unit}]

RawImages == {[src |-> "A", op |-> "raw"], [src |-> "B", op |-> "raw"]}

\* <<rotation_range, hflip_prob>> as a caller may pass them (degrees, percent)
AugmentParams == {<<15, 50>>, <<30, 0>>}

\* RandomRotateFlip.__call__(image, landmarks): a random outcome, a native
\* image and landmarks that stay in [0, 1] when they were in [0, 1].
\*   "same": angle 0 and no flip; "flipped": x |-> 1 - x;
\*   "rotated": a quarter turn about the centre, coordinates swapped in pairs.
RotateFlipOps == {"same", "flipped", "rotated"}
RotateFlipImage(img, op) == [src |-> img.src, op |-> op]
RotateFlipLandmarks(lm, op) ==
    IF op = "same" THEN lm
    ELSE IF op = "flipped" THEN [i \in 1..Len(lm) |-> Unit - lm[i]]
    ELSE [i \in 1..Len(lm) |-> lm[Len(lm) + 1 - i]]

\* normalize_landmarks(landmarks): from [0, 1] into [-1, 1];
\*   "wrist": every landmark relative to the first one;
\*   "scale": x |-> 2 x - 1.
Normalizers == {"wrist", "scale"}
NormalizeLandmarks(fn, lm) ==
    IF fn = "wrist" THEN [i \in 1..Len(lm) |-> lm[i] - lm[1]]
    ELSE [i \in 1..Len(lm) |-> 2 * lm[i] - Unit]

\* transforms(image): the caller's transform, applied
Transforms(img) == [kind |-> "transformed", of |-> img]

\* torch.from_numpy(landmarks): a tensor over the array's values
FromNumpy(lm) == [kind |-> "tensor", data |-> lm]

\* One entry of the call log
Call(fn, img, lm, rr, hp, rt, outImg, outLm) ==
    [fn |-> fn, image |-> img, landmarks |-> lm, rotation_range |-> rr,
     hflip_prob |-> hp, return_tensor |-> rt, out_image |-> outImg,
     out_landmarks |-> outLm]

\* lines 73, 77, 80: the order of the three steps
StepOrderNormalizeFirst == <<"normalize", "rotate_flip", "return">>
StepOrder == <<"rotate_flip", "normalize", "return">>
After(step) ==
    IF step = StepOrder[1] THEN StepOrder[2]
    ELSE IF step = StepOrder[2] THEN StepOrder[3] ELSE "returned"

InitTransform ==
    /\ \E img \in RawImages, lm \in LandmarkArrays, rf \in BOOLEAN, nz \in BOOLEAN,
          p \in AugmentParams :
          args = [image |-> img, landmarks |-> lm, rotate_flip |-> rf,
                  rotation_range |-> p[1], hflip_prob |-> p[2], normalize |-> nz]
    /\ normalizer \in Normalizers
    /\ image = args.image
    /\ landmarks = args.landmarks
    /\ calls = <<>>
    /\ tf_pc = StepOrder[1]
    /\ tf_ret = <<>>
    /\ IdleMeanStd
    /\ IdleDenormalize

\* lines 73-75
TfRotateFlip ==
    /\ tf_pc = "rotate_flip"
    /\ \/ /\ args.rotate_flip
          /\ \E op \in RotateFlipOps :
                /\ image' = RotateFlipImage(image, op)
                /\ landmarks' = RotateFlipLandmarks(landmarks, op)
                /\ calls' = calls \o
                      <<Call("RandomRotateFlip.__init__", NoImage, <<>>,
                             args.rotation_range, args.hflip_prob, FALSE, NoImage, <<>>),
                        Call("RandomRotateFlip.__call__", image, landmarks,
                             args.rotation_range, args.hflip_prob, FALSE,
                             RotateFlipImage(image, op),
                             RotateFlipLandmarks(landmarks, op))>>
       \/ /\ ~args.rotate_flip
          /\ UNCHANGED <<image, landmarks, calls>>
    /\ tf_pc' = After("rotate_flip")
    /\ UNCHANGED <<args, normalizer, tf_ret, msVars, dnVars>>

\* lines 77-78
TfNormalizeRaw ==
    /\ tf_pc = "normalize"
    /\ \/ /\ args.normalize
          /\ landmarks' = NormalizeLandmarks(normalizer, args.landmarks)
          /\ calls' = Append(calls,
                 Call("normalize_landmarks", NoImage, args.landmarks, 0, 0, FALSE,
                      NoImage, NormalizeLandmarks(normalizer, args.landmarks)))
       \/ /\ ~args.normalize
          /\ UNCHANGED <<landmarks, calls>>
    /\ tf_pc' = After("normalize")
    /\ UNCHANGED <<args, normalizer, image, tf_ret, msVars, dnVars>>
TfNormalizeAlways ==
    /\ tf_pc = "normalize"
    /\ landmarks' = NormalizeLandmarks(normalizer, landmarks)
    /\ calls' = Append(calls,
           Call("normalize_landmarks", NoImage, landmarks, 0, 0, FALSE,
                NoImage, NormalizeLandmarks(normalizer, landmarks)))
    /\ tf_pc' = After("normalize")
    /\ UNCHANGED <<args, normalizer, image, tf_ret, msVars, dnVars>>
TfNormalize ==
    /\ tf_pc = "normalize"
    /\ \/ /\ args.normalize
          /\ landmarks' = NormalizeLandmarks(normalizer, landmarks)
          /\ calls' = Append(calls,
                 Call("normalize_landmarks", NoImage, landmarks, 0, 0, FALSE,
                      NoImage, NormalizeLandmarks(normalizer, landmarks)))
       \/ /\ ~args.normalize
          /\ UNCHANGED <<landmarks, calls>>
    /\ tf_pc' = After("normalize")
    /\ UNCHANGED <<args, normalizer, image, tf_ret, msVars, dnVars>>

\* line 80
TfReturn ==
    /\ tf_pc = "return"
    /\ tf_ret' = <<Transforms(image), FromNumpy(landmarks)>>
    /\ calls' = Append(calls,
           Call("transforms", image, <<>>, 0, 0, FALSE, NoImage, <<>>))
    /\ tf_pc' = After("return")
    /\ UNCHANGED <<args, normalizer, image, landmarks, msVars, dnVars>>

NextTransform == TfRotateFlip \/ TfNormalize \/ TfReturn

SpecTransform == InitTransform /\ [][NextTransform]_vars

---------------------------------------------------------------------------
(* Claims about denormalize (specifications SpecDenormalize, SpecRoundTrip) *)

Channels == Len(heap[tensor])
LengthsMatch == Len(dn_mean) = Channels /\ Len(dn_std) = Channels
ZipLength == Min(Channels, Min(Len(dn_mean), Len(dn_std)))

\* value * std[i] + mean[i] on the entry value of element e of channel i
Updated(i, e) == TAdd(TMul(entry[i][e], dn_std[i]), dn_mean[i])

\* C3: denormalize returns the object it was given, no tensor is created, and
\* (mean and std as long as the tensor has channels) every element of every
\* channel i of that object holds old_value * std[i] + mean[i].
C3_InPlaceSameObject ==
    /\ dn_pc \in {"loop", "returned"} => Len(heap) = 1
    /\ dn_pc = "returned" =>
          /\ dn_ret = tensor
          /\ Len(heap[tensor]) = Len(entry)
          /\ LengthsMatch =>
                \A i \in 1..Channels :
                    /\ Len(heap[tensor][i]) = Len(entry[i])
                    /\ \A e \in 1..Len(entry[i]) : heap[tensor][i][e] = Updated(i, e)

\* C3 witness: a tensor of two channels of two elements, with a mean and a std
\* per channel, has been returned with other contents than it came with.
C3_Witness ==
    /\ dn_pc = "returned"
    /\ Channels = 2
    /\ Len(entry[1]) = 2
    /\ LengthsMatch
    /\ dn_ret = tensor
    /\ heap[tensor][1] # entry[1]
    /\ heap[tensor][2] # entry[2]
    /\ entry[1][1] # entry[1][2]

\* C10: with C channels, a mean of length M and a std of length S no error is
\* raised; exactly the first min(C, M, S) channels are updated to
\* value * std[i] + mean[i] and every later channel is left as it was.
C10_SilentTruncation ==
    /\ dn_pc # "raised"
    /\ dn_pc = "returned" =>
          /\ zi = ZipLength
          /\ \A i \in 1..Channels :
                IF i <= ZipLength
                THEN \A e \in 1..Len(entry[i]) : heap[tensor][i][e] = Updated(i, e)
                ELSE heap[tensor][i] = entry[i]

\* C10 witness: two channels and a shorter std: the first channel was updated,
\* the second holds what it held, which is not what an update would give.
C10_Witness ==
    /\ dn_pc = "returned"
    /\ Channels = 2
    /\ Len(dn_mean) = 2
    /\ Len(dn_std) = 1
    /\ heap[tensor][1] # entry[1]
    /\ heap[tensor][2] = entry[2]
    /\ \E e \in 1..Len(entry[2]) :
          entry[2][e] # TAdd(TMul(entry[2][e], dn_std[1]), dn_mean[2])

\* C4 as stated: denormalize(normalize(T)) gives back T in every channel and
\* element.
C4_RoundTripExact ==
    dn_pc = "returned" => heap[dn_ret] = original

\* The rounding a round trip of x through mean m may leave: the four
\* roundings of subtract, divide, multiply and add, each relative and at most
\* 2^-PrecTensor of a magnitude no larger than |x| + |m|.
RoundTripTolerance(x, m) == (4 * (Abs(x) + Abs(m))) \div Pow2(PrecTensor)

\* C4 amended: denormalize(normalize(T)) gives back T up to floating-point
\* rounding: every element x of channel i comes back within
\* 4 * 2^-PrecTensor * (|x| + |mean[i]|) of x, in the tensor it was handed.
C4_RoundTripWithinRounding ==
    dn_pc = "returned" =>
        /\ dn_ret = tensor
        /\ \A i \in 1..Len(original) : \A e \in 1..Len(original[i]) :
              Abs(heap[dn_ret][i][e] - original[i][e])
                  <= RoundTripTolerance(original[i][e], dn_mean[i])

\* C4 witness: a round trip over two channels with different means and stds
\* that gave back some element only approximately.
C4_Witness ==
    /\ dn_pc = "returned"
    /\ Len(original) = 2
    /\ entry = Normalize(original, dn_mean, dn_std)
    /\ dn_mean[1] # dn_mean[2]
    /\ dn_std[1] # dn_std[2]
    /\ heap[dn_ret][1] = original[1]
    /\ heap[dn_ret][2] # original[2]

---------------------------------------------------------------------------
(* Claims about transform_image_and_landmarks (specification SpecTransform) *)

CallsTo(fn) == {i \in 1..Len(calls) : calls[i].fn = fn}

\* C5: with rotate_flip = False and normalize = False the function returns
\* (transforms(image), landmarks as a tensor) of the input image and the input
\* landmark values, and calls neither RandomRotateFlip nor normalize_landmarks.
C5_PassThrough ==
    (tf_pc = "returned" /\ ~args.rotate_flip /\ ~args.normalize) =>
        /\ tf_ret = <<Transforms(args.image), FromNumpy(args.landmarks)>>
        /\ calls = <<Call("transforms", args.image, <<>>, 0, 0, FALSE, NoImage, <<>>)>>

\* C5 witness: a call with both flags off has returned.
C5_Witness ==
    /\ tf_pc = "returned"
    /\ ~args.rotate_flip
    /\ ~args.normalize
    /\ tf_ret[2].data = args.landmarks
    /\ args.landmarks[1] # args.landmarks[2]

\* C6: with normalize = True and input landmarks in [0, 1] the returned
\* landmarks lie in [-1, 1], with and without rotate_flip (given collaborators
\* that keep [0, 1] and map [0, 1] into [-1, 1]).
C6_NormalizedRange ==
    (tf_pc = "returned" /\ args.normalize /\ In01(args.landmarks)) =>
        InPm1(tf_ret[2].data)

\* C6 witness: a call with both flags on has returned landmarks that left
\* [0, 1] and are in [-1, 1].
C6_Witness ==
    /\ tf_pc = "returned"
    /\ args.normalize
    /\ args.rotate_flip
    /\ In01(args.landmarks)
    /\ ~In01(tf_ret[2].data)
    /\ InPm1(tf_ret[2].data)

\* C9: the steps run in a fixed order, each collaborator at most once:
\* RandomRotateFlip (built with the given rotation_range and hflip_prob and
\* return_tensor = False, called on the input image and landmarks) if
\* rotate_flip; then normalize_landmarks, on the landmarks rotate/flip gave, if
\* normalize; then transforms, on the image rotate/flip gave.
C9_StepOrder ==
    tf_pc = "returned" =>
        LET k == IF args.rotate_flip THEN 2 ELSE 0
            n == IF args.normalize THEN 1 ELSE 0
            imageOut == IF args.rotate_flip THEN calls[2].out_image ELSE args.image
            landmarksOut == IF args.rotate_flip THEN calls[2].out_landmarks
                                                ELSE args.landmarks
        IN  /\ Len(calls) = k + n + 1
            /\ args.rotate_flip =>
                  /\ calls[1] = Call("RandomRotateFlip.__init__", NoImage, <<>>,
                                     args.rotation_range, args.hflip_prob, FALSE,
                                     NoImage, <<>>)
                  /\ calls[2].fn = "RandomRotateFlip.__call__"
                  /\ calls[2].image = args.image
                  /\ calls[2].landmarks = args.landmarks
            /\ args.normalize =>
                  /\ calls[k + 1].fn = "normalize_landmarks"
                  /\ calls[k + 1].landmarks = landmarksOut
            /\ calls[k + n + 1].fn = "transforms"
            /\ calls[k + n + 1].image = imageOut
            /\ \A fn \in {"RandomRotateFlip.__init__", "RandomRotateFlip.__call__",
                          "normalize_landmarks", "transforms"} :
                  Cardinality(CallsTo(fn)) <= 1
            /\ tf_ret = <<Transforms(imageOut),
                          FromNumpy(IF args.normalize THEN calls[k + 1].out_landmarks
                                                      ELSE landmarksOut)>>

\* C9 witness: both flags on, rotate/flip changed image and landmarks, and the
\* normalizer and the transform received what it gave.
C9_Witness ==
    /\ tf_pc = "returned"
    /\ args.rotate_flip
    /\ args.normalize
    /\ Len(calls) = 4
    /\ calls[2].out_landmarks # args.landmarks
    /\ calls[2].out_image # args.image
    /\ calls[3].landmarks = calls[2].out_landmarks
    /\ calls[4].image = calls[2].out_image

=============================================================================
